---- MODULE Spec2Model ----
(***************************************************************************)
(* Wayland display enumeration of ubuntu-insights.  The repository holds   *)
(* two implementations of the same interface:                              *)
(*   "insights": src/insights/internal/collector/sysinfo/hardware/         *)
(*               wayland_displays_linux.c                                  *)
(*   "legacy"  : src/internal/collector/sysinfo/hardware/                  *)
(*               wayland_displays_linux.c                                  *)
(* The module statics are the variables; every handler of the C code is an *)
(* operator from a statics record (and the handler's inputs) to the set of *)
(* statics records the call can end in.  The compositor and malloc are the *)
(* environment: their answers are the inputs drawn by the actions.         *)
(* The log callback of the C test helper, src/insights/C/libinsightstest.c, *)
(* is modelled beside it with a state and a specification of its own.      *)
(***************************************************************************)
EXTENDS Integers, Sequences, FiniteSets, TLC

\* ---------------------------------------------------------------- bounds
MaxOutputs == 5      \* wl_output globals announced to one init_wayland call
MaxAnomalies == 1    \* departures from a plain enumeration in one behaviour
MaxInject == 2       \* length of an array handed to set_displays
MaxCalls == 3        \* calls of test_log_callback_fn in one behaviour

\* ------------------------------------------------------ program constants
INITIAL_CAPACITY == 4
WL_OUTPUT_MODE_CURRENT == 1
TEST_CB_MAX_SIZE == 4096
INSIGHTS_LOG_ERROR == 0
INSIGHTS_LOG_WARN == 1
INSIGHTS_LOG_INFO == 2
INSIGHTS_LOG_DEBUG == 3

Impls == {"insights", "legacy"}
Interfaces == {"wl_output", "wl_seat"}
Flags == 0..3
\* what the compositor sends first for output k: its physical size and its
\* current mode, different for every output
MonitorPhys(k) == <<300 + k, 200 + k>>
MonitorMode(k) == <<1920 + k, 1080 + k, 60 + k>>
\* what it sends when an output changes afterwards
ExtraPhys == {<<77, 55>>}
ExtraModes == {<<640, 480, 30>>}
\* what freshly malloc'ed, never written memory may read as
Garbage == {0, 7}

\* flags & WL_OUTPUT_MODE_CURRENT, for flags in 0..3
IsCurrent(flags) == (flags % (2 * WL_OUTPUT_MODE_CURRENT)) \div WL_OUTPUT_MODE_CURRENT = 1

\* ------------------------------------------------------------------ heap
\* An array of pointers: st is "null", "live" or "freed" (a dangling
\* pointer), len the number of slots malloc/realloc gave it, elems what its
\* memory holds (0: a slot never written).  elems is longer than len only
\* after a write past the end that did not crash.
NullArr == [st |-> "null", len |-> 0, elems |-> <<>>]

Malloc(n) == [st |-> "live", len |-> n, elems |-> [i \in 1..n |-> 0]]

Realloc(a, n) ==
  [st |-> "live", len |-> n,
   elems |-> [i \in 1..n |-> IF i <= a.len /\ i <= Len(a.elems) THEN a.elems[i] ELSE 0]]

Free(a) == IF a.st = "null" THEN a ELSE [a EXCEPT !.st = "freed"]

\* the undefined behaviour, if any, of touching a[i] (i counted from 0)
Access(a, i) ==
  IF a.st = "null" THEN "null"
  ELSE IF a.st = "freed" THEN "uaf"
  ELSE IF i < 0 \/ i >= a.len THEN "oob"
  ELSE "ok"

\* a[i] = v as the memory sees it, whether or not the write was in bounds
Store(a, i, v) ==
  [a EXCEPT !.elems = IF i + 1 <= Len(@) THEN [@ EXCEPT ![i + 1] = v]
                      ELSE @ \o [j \in 1..(i - Len(@)) |-> 0] \o <<v>>]

\* the undefined behaviour, if any, of reading a[0..n-1] and using each value
ReadAll(a, n) ==
  IF n <= 0 THEN "ok"
  ELSE IF Access(a, n - 1) # "ok" THEN Access(a, n - 1)
  ELSE IF \E i \in 1..n : a.elems[i] = 0 THEN "uninit"
  ELSE "ok"

\* the non-garbage values a loop over a[0..n-1] gets to see
Seen(a, n) == {a.elems[i] : i \in {j \in 1..n : j <= Len(a.elems)}} \ {0}

FreeFault(a) == IF a.st = "freed" THEN "double_free" ELSE "ok"

FirstFault(kinds) ==
  IF \E i \in 1..Len(kinds) : kinds[i] # "ok"
  THEN kinds[CHOOSE i \in 1..Len(kinds) :
               kinds[i] # "ok" /\ \A j \in 1..(i - 1) : kinds[j] = "ok"]
  ELSE "ok"

\* The outcomes of a step that runs into undefined behaviour `kind` in state
\* s: the process dies there, or (unless the access was through NULL) the
\* access goes through as if the memory were the program's and the step ends
\* in `after`.  With kind "ok" the step simply ends in `after`.
Outcomes(s, after, kind) ==
  IF kind = "ok" THEN {after}
  ELSE {[s EXCEPT !.crashed = TRUE, !.fault = kind]}
       \cup (IF kind = "null" THEN {}
             ELSE {[after EXCEPT !.fault = IF s.fault = "none" THEN kind ELSE s.fault]})

\* a struct wayland_display on the heap; owner is the output it was made for
\* (0: a record handed in through set_displays)
Record(owner, m, p) ==
  [owner |-> owner, width |-> m[1], height |-> m[2], refresh |-> m[3],
   phys_width |-> p[1], phys_height |-> p[2]]

\* ----------------------------------------------------------------- state
VARIABLES
  impl,               \* which of the two implementations is running
  memory_error,       \* static bool memory_error
  displays,           \* static struct wayland_display **displays
  outputs,            \* static struct wl_output **outputs
  displays_count,     \* legacy displays_count; insights count
  displays_capacity,  \* legacy displays_capacity; insights capacity
  outputs_count,      \* legacy outputs_count; insights count
  outputs_capacity,   \* legacy outputs_capacity; insights capacity
  display,            \* static struct wl_display *display (0: NULL)
  registry,           \* static struct wl_registry *registry (0: NULL)
  recs,               \* the struct wayland_display objects on the heap
  listeners,          \* wl_output proxies with output_listener attached
  live_outputs,       \* wl_output proxies bound and not yet destroyed
  fault,              \* the first undefined behaviour run into, or "none"
  pc,                 \* "idle", inside init_wayland ("sync1", "sync2"), "crashed"
  last,               \* the call or event handled last
  syncs,              \* synchronisation calls made by the running init_wayland
  dispatched,         \* events dispatched since the second synchronisation call began
  nout,               \* wl_output globals announced to the last init_wayland call
  anomalies,          \* departures from a plain enumeration so far
  plain,              \* the last init_wayland call met none of them
  failed,             \* the outputs in whose handlers an allocation failed
  sent,               \* first geometry/mode events delivered to the running call
  entry,              \* what that call found: had_memory_error() and Reset
  test_cb_state,      \* libinsightstest.c: static test_cb_state_t test_cb_state
  calls               \* calls of test_log_callback_fn made so far

statics == <<memory_error, displays, outputs, displays_count, displays_capacity,
             outputs_count, outputs_capacity, display, registry>>
vars == <<impl, memory_error, displays, outputs, displays_count, displays_capacity,
          outputs_count, outputs_capacity, display, registry, recs, listeners,
          live_outputs, fault, pc, last, syncs, dispatched, nout, anomalies,
          plain, failed, sent, entry>>

\* the statics, the heap and the proxies as one record, as a call finds them
Cur ==
  [memory_error |-> memory_error, displays |-> displays, outputs |-> outputs,
   displays_count |-> displays_count, displays_capacity |-> displays_capacity,
   outputs_count |-> outputs_count, outputs_capacity |-> outputs_capacity,
   display |-> display, registry |-> registry, recs |-> recs,
   listeners |-> listeners, live_outputs |-> live_outputs,
   fault |-> fault, crashed |-> FALSE, released |-> 0]

\* ------------------------------------------------------------ accessors
get_displays == displays
get_output_count == displays_count
had_memory_error == memory_error

\* the records get_displays()[0 .. get_output_count()-1] point to, where the
\* array is live and the slot holds a pointer to a record
Visible ==
  [i \in {j \in 1..displays_count :
            displays.st = "live" /\ j <= displays.len /\ displays.elems[j] # 0}
     |-> recs[displays.elems[i]]]

\* ---------------------------------------------------- insights: handlers
\* handle_geometry that also clears memory_error
handle_geometry_insights_clearing(s, data, physical_width, physical_height) ==
  {[s EXCEPT !.recs[data].phys_width = physical_width,
             !.recs[data].phys_height = physical_height,
             !.memory_error = FALSE]}

handle_geometry_insights(s, data, physical_width, physical_height) ==
  {[s EXCEPT !.recs[data].phys_width = physical_width,
             !.recs[data].phys_height = physical_height]}

\* handle_mode without the test of WL_OUTPUT_MODE_CURRENT
handle_mode_insights_any_flags(s, data, flags, width, height, refresh) ==
  {[s EXCEPT !.recs[data].width = width, !.recs[data].height = height,
             !.recs[data].refresh = refresh]}

handle_mode_insights(s, data, flags, width, height, refresh) ==
  IF IsCurrent(flags)
  THEN {[s EXCEPT !.recs[data].width = width, !.recs[data].height = height,
                  !.recs[data].refresh = refresh]}
  ELSE {s}

\* name is the announced global (the output's number); ro, rd, md are the
\* answers of realloc(outputs), realloc(displays) and malloc(display)
global_handler_insights(s, name, interface, ro, rd, md) ==
  IF interface # "wl_output" THEN {s}
  ELSE
    LET count == s.displays_count
        grow == count >= s.displays_capacity
        capacity == IF grow THEN s.displays_capacity * 2 ELSE s.displays_capacity
        reallocFault == IF grow THEN FirstFault(<<FreeFault(s.outputs), FreeFault(s.displays)>>)
                        ELSE "ok"
        s1 == [s EXCEPT !.displays_capacity = capacity, !.outputs_capacity = capacity]
    IN IF grow /\ (~ro \/ ~rd)
       THEN Outcomes(s, [s1 EXCEPT !.outputs = IF ro THEN Free(s.outputs) ELSE s.outputs,
                                   !.displays = IF rd THEN Free(s.displays) ELSE s.displays,
                                   !.memory_error = TRUE],
                     reallocFault)
       ELSE
         LET s2 == IF grow
                   THEN [s1 EXCEPT !.outputs = Realloc(s.outputs, capacity),
                                   !.displays = Realloc(s.displays, capacity)]
                   ELSE s1
         IN IF ~md
            THEN Outcomes(s, [s2 EXCEPT !.memory_error = TRUE], reallocFault)
            ELSE
              LET rid == Len(s.recs) + 1
                  s3 == [s2 EXCEPT
                           !.recs = Append(@, Record(name, <<0, 0, 0>>, <<0, 0>>)),
                           !.live_outputs = @ \cup {name},
                           !.displays = Store(@, count, rid),
                           !.outputs = Store(@, count, name),
                           !.displays_count = count + 1,
                           !.outputs_count = count + 1,
                           !.listeners = @ \cup {[out |-> name, data |-> rid]}]
              IN Outcomes(s, s3, FirstFault(<<reallocFault, Access(s2.displays, count),
                                              Access(s2.outputs, count)>>))

\* whether one of the allocations global_handler makes for this event fails
alloc_failed_insights(s, interface, ro, rd, md) ==
  /\ interface = "wl_output"
  /\ \/ s.displays_count >= s.displays_capacity /\ (~ro \/ ~rd)
     \/ ~md

\* the allocations global_handler does not get to make answer TRUE
alloc_asked_insights(s, interface, ro, rd, md) ==
  LET grow == interface = "wl_output" /\ s.displays_count >= s.displays_capacity
  IN /\ ~grow => ro /\ rd
     /\ (interface # "wl_output" \/ (grow /\ (~ro \/ ~rd))) => md

\* ------------------------------------------------------ legacy: handlers
\* rd, mi are the answers of realloc(displays) and malloc(info); garbage is
\* what the fields malloc left unwritten read as
handle_geometry_legacy(s, output, physical_width, physical_height, rd, mi, garbage) ==
  LET grow == s.displays_count >= s.displays_capacity
      capacity == IF grow THEN s.displays_capacity * 2 ELSE s.displays_capacity
      s1 == [s EXCEPT !.displays_capacity = capacity]
  IN IF grow /\ ~rd THEN {[s1 EXCEPT !.memory_error = TRUE]}
     ELSE
       LET s2 == IF grow THEN [s1 EXCEPT !.displays = Realloc(s.displays, capacity)] ELSE s1
       IN IF ~mi THEN {[s2 EXCEPT !.memory_error = TRUE]}
          ELSE
            LET rid == Len(s.recs) + 1
                s3 == [s2 EXCEPT
                         !.recs = Append(@, Record(output, <<garbage, garbage, garbage>>,
                                                   <<physical_width, physical_height>>)),
                         !.displays = Store(@, s.displays_count, rid),
                         !.displays_count = s.displays_count + 1]
            IN Outcomes(s, s3, Access(s2.displays, s.displays_count))

alloc_failed_geometry_legacy(s, rd, mi) ==
  (s.displays_count >= s.displays_capacity /\ ~rd) \/ ~mi

alloc_asked_geometry_legacy(s, rd, mi) ==
  LET grow == s.displays_count >= s.displays_capacity
  IN /\ ~grow => rd
     /\ (grow /\ ~rd) => mi

handle_mode_legacy(s, flags, width, height, refresh) ==
  IF IsCurrent(flags)
  THEN
    LET i == s.displays_count - 1
        slot == IF i >= 0 /\ i + 1 <= Len(s.displays.elems) THEN s.displays.elems[i + 1] ELSE 0
        kind == FirstFault(<<Access(s.displays, i), IF slot = 0 THEN "uninit" ELSE "ok">>)
        after == IF slot = 0 THEN s
                 ELSE [s EXCEPT !.recs[slot].width = width, !.recs[slot].height = height,
                                !.recs[slot].refresh = refresh]
    IN Outcomes(s, after, kind)
  ELSE {s}

\* ro is the answer of realloc(outputs)
global_handler_legacy(s, name, interface, ro) ==
  IF interface # "wl_output" THEN {s}
  ELSE
    LET grow == s.outputs_count >= s.outputs_capacity
        capacity == IF grow THEN s.outputs_capacity * 2 ELSE s.outputs_capacity
        s1 == [s EXCEPT !.live_outputs = @ \cup {name}, !.outputs_capacity = capacity]
    IN IF grow /\ ~ro THEN {[s1 EXCEPT !.memory_error = TRUE]}
       ELSE
         LET s2 == IF grow THEN [s1 EXCEPT !.outputs = Realloc(s.outputs, capacity)] ELSE s1
             s3 == [s2 EXCEPT !.outputs = Store(@, s.outputs_count, name),
                              !.outputs_count = s.outputs_count + 1,
                              !.listeners = @ \cup {[out |-> name, data |-> 0]}]
         IN Outcomes(s, s3, Access(s2.outputs, s.outputs_count))

alloc_failed_global_legacy(s, interface, ro) ==
  interface = "wl_output" /\ s.outputs_count >= s.outputs_capacity /\ ~ro

alloc_asked_global_legacy(s, interface, ro) ==
  ~(interface = "wl_output" /\ s.outputs_count >= s.outputs_capacity) => ro

global_remove(s) == {s}

\* --------------------------------------------------------------- cleanup
NonNull(a) == IF a.st = "null" THEN 0 ELSE 1
NonZero(h) == IF h = 0 THEN 0 ELSE 1

\* cleanup without its last statement, memory_error = false
cleaned_keeping_memory_error(s, destroyed, freed) ==
  [s EXCEPT !.outputs = NullArr, !.outputs_count = 0,
            !.outputs_capacity = INITIAL_CAPACITY,
            !.registry = 0, !.display = 0,
            !.displays = NullArr, !.displays_count = 0,
            !.displays_capacity = INITIAL_CAPACITY,
            !.recs = <<>>, !.listeners = {},
            !.live_outputs = @ \ destroyed,
            !.released = @ + Cardinality(destroyed) + Cardinality(freed)
                           + NonNull(s.outputs) + NonNull(s.displays)
                           + NonZero(s.registry) + NonZero(s.display)]

\* cleanup without outputs = NULL and displays = NULL after the two frees
cleaned_keeping_pointers(s, destroyed, freed) ==
  [s EXCEPT !.outputs = Free(@), !.outputs_count = 0,
            !.outputs_capacity = INITIAL_CAPACITY,
            !.registry = 0, !.display = 0,
            !.displays = Free(@), !.displays_count = 0,
            !.displays_capacity = INITIAL_CAPACITY,
            !.memory_error = FALSE,
            !.recs = <<>>, !.listeners = {},
            !.live_outputs = @ \ destroyed,
            !.released = @ + Cardinality(destroyed) + Cardinality(freed)
                           + NonNull(s.outputs) + NonNull(s.displays)
                           + NonZero(s.registry) + NonZero(s.display)]

\* what cleanup leaves when it runs to its end; released counts its calls of
\* wl_output_destroy, wl_registry_destroy, wl_display_disconnect and
\* free(non-NULL)
cleaned(s, destroyed, freed) ==
  [s EXCEPT !.outputs = NullArr, !.outputs_count = 0,
            !.outputs_capacity = INITIAL_CAPACITY,
            !.registry = 0, !.display = 0,
            !.displays = NullArr, !.displays_count = 0,
            !.displays_capacity = INITIAL_CAPACITY,
            !.memory_error = FALSE,
            !.recs = <<>>, !.listeners = {},
            !.live_outputs = @ \ destroyed,
            !.released = @ + Cardinality(destroyed) + Cardinality(freed)
                           + NonNull(s.outputs) + NonNull(s.displays)
                           + NonZero(s.registry) + NonZero(s.display)]

cleanup_insights(s) ==
  LET count == s.displays_count
      guard == s.outputs.st # "null"
      kind == FirstFault(<<IF guard THEN ReadAll(s.outputs, count) ELSE "ok",
                           FreeFault(s.outputs),
                           ReadAll(s.displays, count),
                           FreeFault(s.displays)>>)
  IN Outcomes(s, cleaned(s, IF guard THEN Seen(s.outputs, count) ELSE {},
                         Seen(s.displays, count)),
              kind)

cleanup_legacy(s) ==
  LET kind == FirstFault(<<ReadAll(s.outputs, s.outputs_count),
                           FreeFault(s.outputs),
                           ReadAll(s.displays, s.displays_count),
                           FreeFault(s.displays)>>)
  IN Outcomes(s, cleaned(s, Seen(s.outputs, s.outputs_count),
                         Seen(s.displays, s.displays_count)),
              kind)

cleanup(i, s) == IF i = "insights" THEN cleanup_insights(s) ELSE cleanup_legacy(s)

\* ---------------------------------------------------------- init_wayland
\* A call of init_wayland is modelled in three parts: up to the registration
\* of the registry listener, the first synchronisation call and the second.
\* Each part yields records [s, ret, running]: the statics, and either the
\* value returned or running = TRUE.
Returned(S, r) == {[s |-> x, ret |-> r, running |-> FALSE] : x \in S}
Running(S) == {[s |-> x, ret |-> 0, running |-> ~x.crashed] : x \in S}

\* mo, md: the answers of the two mallocs; conn: whether wl_display_connect
\* succeeds; id: the connection it returns
init_wayland_insights(s, mo, md, conn, id) ==
  LET s1 == [s EXCEPT !.outputs = IF mo THEN Malloc(s.outputs_capacity) ELSE NullArr,
                      !.displays = IF md THEN Malloc(s.displays_capacity) ELSE NullArr,
                      !.recs = <<>>, !.listeners = {}]
  IN IF ~mo \/ ~md
     THEN Returned({[s1 EXCEPT !.outputs = NullArr, !.displays = NullArr,
                               !.memory_error = TRUE]}, -1)
     ELSE IF ~conn
     THEN Returned(cleanup_insights([s1 EXCEPT !.display = 0]), -1)
     ELSE Running({[s1 EXCEPT !.display = id, !.registry = id, !.live_outputs = {}]})

init_wayland_legacy(s, mo, md, conn, id) ==
  IF ~mo
  THEN Returned({[s EXCEPT !.outputs = NullArr, !.memory_error = TRUE]}, -1)
  ELSE
    LET s1 == [s EXCEPT !.outputs = Malloc(s.outputs_capacity),
                        !.displays = IF md THEN Malloc(s.displays_capacity) ELSE NullArr,
                        !.recs = <<>>, !.listeners = {}]
    IN IF ~md
       THEN Returned({[s1 EXCEPT !.outputs = NullArr, !.memory_error = TRUE]}, -1)
       ELSE IF ~conn
       THEN Returned(cleanup_legacy([s1 EXCEPT !.display = 0]), -1)
       ELSE Running({[s1 EXCEPT !.display = id, !.registry = id, !.live_outputs = {}]})

init_wayland(i, s, mo, md, conn, id) ==
  IF i = "insights" THEN init_wayland_insights(s, mo, md, conn, id)
  ELSE init_wayland_legacy(s, mo, md, conn, id)

\* the first synchronisation call returns; ok: its result is >= 0
first_sync_insights(s, ok) ==
  IF ~ok THEN Returned(cleanup_insights(s), -1) ELSE Running({s})

first_sync_legacy(s, ok) == Running({s})

first_sync(i, s, ok) ==
  IF i = "insights" THEN first_sync_insights(s, ok) ELSE first_sync_legacy(s, ok)

\* the second synchronisation call returns, and init_wayland with it
second_sync_insights(s, ok) ==
  IF ~ok THEN Returned(cleanup_insights(s), -1) ELSE Returned({s}, 0)

second_sync_legacy(s, ok) == Returned({s}, 0)

second_sync(i, s, ok) ==
  IF i = "insights" THEN second_sync_insights(s, ok) ELSE second_sync_legacy(s, ok)

\* the library call each implementation makes at each synchronisation point
sync_call(i, n) ==
  IF i = "insights" /\ n = 2 THEN "wl_display_dispatch" ELSE "wl_display_roundtrip"

\* ------------------------------------------------------------- test seam
\* set_displays without count = capacity = c
set_displays_insights_keeping_count(s, new_displays, new_recs, c) ==
  {[x EXCEPT !.displays = new_displays, !.recs = new_recs]
     : x \in {y \in cleanup_insights(s) : ~y.crashed}}
  \cup {y \in cleanup_insights(s) : y.crashed}

\* new_displays: the array handed in, c its length; its records come with it
set_displays_insights(s, new_displays, new_recs, c) ==
  {[x EXCEPT !.displays = new_displays, !.recs = new_recs,
             !.displays_count = c, !.outputs_count = c,
             !.displays_capacity = c, !.outputs_capacity = c]
     : x \in {y \in cleanup_insights(s) : ~y.crashed}}
  \cup {y \in cleanup_insights(s) : y.crashed}

set_displays_legacy(s, new_displays, new_recs, count) ==
  {[x EXCEPT !.displays = new_displays, !.recs = new_recs,
             !.displays_count = count, !.displays_capacity = count]
     : x \in {y \in cleanup_legacy(s) : ~y.crashed}}
  \cup {y \in cleanup_legacy(s) : y.crashed}

set_displays(i, s, new_displays, new_recs, c) ==
  IF i = "insights" THEN set_displays_insights(s, new_displays, new_recs, c)
  ELSE set_displays_legacy(s, new_displays, new_recs, c)

set_memory_error(s, error) == {[s EXCEPT !.memory_error = error]}


\* ---------------------------------------------- the test log callback
\* Characters are their codes.  A char array is kept up to the last byte
\* ever written; the bytes after it are the zeros of the static initialiser.
StrERROR == <<69, 82, 82, 79, 82>>
StrWARN == <<87, 65, 82, 78>>
StrINFO == <<73, 78, 70, 79>>
StrDEBUG == <<68, 69, 66, 85, 71>>
StrUNKNOWN == <<85, 78, 75, 78, 79, 87, 78>>

\* the levels a caller passes: those of the enum and a value outside it
LogLevels == {INSIGHTS_LOG_ERROR, INSIGHTS_LOG_WARN, INSIGHTS_LOG_INFO,
              INSIGHTS_LOG_DEBUG, INSIGHTS_LOG_DEBUG + 1}

\* the messages a caller passes: NULL, or n characters 'm'; the lengths put
\* a line of level INFO at half the buffer less one byte and at the whole
\* buffer less one byte
MsgLens == {0, TEST_CB_MAX_SIZE \div 2 - 9, TEST_CB_MAX_SIZE - 9}
Messages ==
  {[null |-> TRUE, chars |-> <<>>]}
  \cup {[null |-> FALSE, chars |-> [i \in 1..n |-> 109]] : n \in MsgLens}

\* buf[i], i counted from 0
At(buf, i) == IF i + 1 <= Len(buf) THEN buf[i + 1] ELSE 0

\* buf[i] = c
Put(buf, i, c) ==
  IF i + 1 <= Len(buf) THEN [buf EXCEPT ![i + 1] = c]
  ELSE buf \o [j \in 1..(i - Len(buf)) |-> 0] \o <<c>>

\* memcpy(buf + at, str, len), with at within what was written before
memcpy(buf, at, str, len) ==
  SubSeq(buf, 1, at) \o SubSeq(str, 1, len) \o SubSeq(buf, at + len + 1, Len(buf))

\* the switch of test_log_callback_fn
lvlStr(level) ==
  CASE level = INSIGHTS_LOG_ERROR -> StrERROR
    [] level = INSIGHTS_LOG_WARN -> StrWARN
    [] level = INSIGHTS_LOG_INFO -> StrINFO
    [] level = INSIGHTS_LOG_DEBUG -> StrDEBUG
    [] OTHER -> StrUNKNOWN

\* what "[%s] %s\n" expands to; snprintf returns its length and stores as
\* much of it as fits
snprintf(lvl, msg) == <<91>> \o lvl \o <<93, 32>> \o msg \o <<10>>

\* append_log without the test of buf_exceeded
append_log_ignoring_flag(t, str, len) ==
  IF t.size + len + 1 > TEST_CB_MAX_SIZE
  THEN [t EXCEPT !.buf_exceeded = TRUE]
  ELSE [t EXCEPT !.buf = Put(memcpy(t.buf, t.size, str, len), t.size + len, 0),
                 !.size = t.size + len]

\* str is the local array line of the caller, never NULL
append_log(t, str, len) ==
  IF (t.size + len + 1 > TEST_CB_MAX_SIZE) \/ t.buf_exceeded
  THEN [t EXCEPT !.buf_exceeded = TRUE]
  ELSE [t EXCEPT !.buf = Put(memcpy(t.buf, t.size, str, len), t.size + len, 0),
                 !.size = t.size + len]

\* count is an int, and the calls made stay far from INT_MAX.  snprintf of two
\* strings does not fail, so ret is the length of the whole line
test_log_callback_fn(t, level, msg) ==
  LET t1 == [t EXCEPT !.count = @ + 1]
  IN IF msg.null THEN t1
     ELSE LET line == snprintf(lvlStr(level), msg.chars)
              ret == Len(line)
          IN IF ret >= TEST_CB_MAX_SIZE
             THEN [t1 EXCEPT !.buf_exceeded = TRUE]
             ELSE append_log(t1, line, ret)

reset_test_callback(t) ==
  [t EXCEPT !.count = 0, !.size = 0, !.buf = Put(@, 0, 0), !.buf_exceeded = FALSE]

get_test_cb_count == test_cb_state.count
get_test_cb_buffer == test_cb_state.buf
get_test_cb_buf_exceeded == test_cb_state.buf_exceeded

\* static _Thread_local test_cb_state_t test_cb_state = {0, {0}, 0, false}
InitialTestCbState == [count |-> 0, buf |-> <<>>, size |-> 0, buf_exceeded |-> FALSE]

\* ------------------------------------------------------------ compositor
\* The compositor answers a bind with the output's geometry and then its
\* current mode, output after output in the order of the binds; events for a
\* proxy without listener are dropped by the library.  Rank(l) is l's place
\* among the outputs that have the listener.
\* events reach the handlers for as long as the connection has not failed
Connected == \A i \in 1..Len(syncs) : syncs[i].result # "failed"
Rank(l) == Cardinality({x \in listeners : x.out <= l.out})
Pending == sent < 2 * Cardinality(listeners)
IsNext(l, kind) == Rank(l) = (sent \div 2) + 1 /\ kind = (sent % 2)
Served(l) == Rank(l) <= sent \div 2

\* --------------------------------------------------------------- actions
Last(op, ret, s) == [op |-> op, ret |-> ret, released |-> s.released]

\* the step ends with the statics, heap and proxies of s
Commit(s, nextpc) ==
  /\ memory_error' = s.memory_error
  /\ displays' = s.displays
  /\ outputs' = s.outputs
  /\ displays_count' = s.displays_count
  /\ displays_capacity' = s.displays_capacity
  /\ outputs_count' = s.outputs_count
  /\ outputs_capacity' = s.outputs_capacity
  /\ display' = s.display
  /\ registry' = s.registry
  /\ recs' = s.recs
  /\ listeners' = s.listeners
  /\ live_outputs' = s.live_outputs
  /\ fault' = s.fault
  /\ pc' = IF s.crashed THEN "crashed" ELSE nextpc
  /\ UNCHANGED <<test_cb_state, calls>>

Init ==
  /\ impl \in Impls
  /\ memory_error = FALSE
  /\ displays = NullArr
  /\ outputs = NullArr
  /\ displays_count = 0
  /\ displays_capacity = INITIAL_CAPACITY
  /\ outputs_count = 0
  /\ outputs_capacity = INITIAL_CAPACITY
  /\ display = 0
  /\ registry = 0
  /\ recs = <<>>
  /\ listeners = {}
  /\ live_outputs = {}
  /\ fault = "none"
  /\ pc = "idle"
  /\ last = [op |-> "start", ret |-> 0, released |-> 0]
  /\ syncs = <<>>
  /\ dispatched = FALSE
  /\ nout = 0
  /\ anomalies = 0
  /\ plain = FALSE
  /\ failed = {}
  /\ sent = 0
  /\ entry = [error |-> FALSE, reset |-> TRUE]
  /\ test_cb_state = InitialTestCbState
  /\ calls = 0

\* A plain enumeration: init_wayland called with the statics as the program
\* start or cleanup leaves them (Reset) in a process that has run into no
\* undefined behaviour, a compositor that announces its outputs
\* and answers each bind with one geometry and one current mode, and calls
\* that succeed.  Everything else is an anomaly, and a behaviour has at most
\* MaxAnomalies of them: a failing allocation, connection or synchronisation
\* call, an event beyond the first ones (a global of another interface, a
\* wl_output global during the second synchronisation call, a removed
\* global, a mode that is not current, a second geometry or current mode),
\* a call of set_displays, and init_wayland called over arrays, counts or
\* handles that are not reset (unless set_displays has just set them).  set_memory_error only flips the flag and is
\* not counted.
Released ==
  /\ displays = NullArr /\ outputs = NullArr
  /\ displays_count = 0 /\ outputs_count = 0
  /\ displays_capacity = INITIAL_CAPACITY /\ outputs_capacity = INITIAL_CAPACITY
  /\ display = 0 /\ registry = 0
Reset == Released /\ ~memory_error /\ fault = "none"

Anomaly(n) ==
  /\ anomalies + n <= MaxAnomalies
  /\ anomalies' = anomalies + n
  /\ plain' = (plain /\ n = 0)

\* an event that no handler acts on: counted, and the enumeration stays plain
Ignored ==
  /\ anomalies + 1 <= MaxAnomalies
  /\ anomalies' = anomalies + 1
  /\ plain' = plain

Cost(b) == IF b THEN 1 ELSE 0

\* what is recorded about the last init_wayland call goes with its session
Forget ==
  /\ syncs' = <<>>
  /\ dispatched' = FALSE
  /\ nout' = 0
  /\ failed' = {}
  /\ sent' = 0
  /\ entry' = [error |-> FALSE, reset |-> TRUE]

\* a synchronisation call as syncs records it: result is "pending" until it
\* returns, then "ok" or "failed"
Call(name) == [call |-> name, result |-> "pending"]
Result(ok) == IF ok THEN "ok" ELSE "failed"

\* init_wayland called over statics that are not released, other than those
\* the call of set_displays just before it left (which is counted already)
Reentry == ~Released /\ last.op # "set_displays"

\* the caller calls init_wayland; it runs up to its first synchronisation call
InitWayland ==
  /\ pc = "idle"
  /\ \E mo, md, conn \in BOOLEAN :
       /\ (~mo => md) /\ (~(mo /\ md) => conn)
       /\ anomalies + Cost(Reentry) + Cost(~(mo /\ md /\ conn)) <= MaxAnomalies
       /\ anomalies' = anomalies + Cost(Reentry) + Cost(~(mo /\ md /\ conn))
       /\ plain' = (Reset /\ mo /\ md /\ conn)
       /\ \E r \in init_wayland(impl, Cur, mo, md, conn, 1) :
            /\ Commit(r.s, IF r.running THEN "sync1" ELSE "idle")
            /\ last' = Last(IF r.running THEN "event" ELSE "init_wayland", r.ret, r.s)
            /\ syncs' = IF r.running THEN <<Call(sync_call(impl, 1))>> ELSE <<>>
  /\ dispatched' = FALSE
  /\ failed' = {}
  /\ sent' = 0
  /\ nout' = 0
  /\ entry' = [error |-> had_memory_error, reset |-> Reset]
  /\ UNCHANGED impl

\* the handling of a global the compositor announces
GlobalInsights(interface, ro, rd, md) ==
  /\ impl = "insights"
  /\ alloc_asked_insights(Cur, interface, ro, rd, md)
  /\ LET bad == alloc_failed_insights(Cur, interface, ro, rd, md)
     IN /\ \E s \in global_handler_insights(Cur, nout + 1, interface, ro, rd, md) :
             /\ Commit(s, pc)
             /\ last' = Last(IF interface = "wl_output" THEN "event" ELSE "global_other", 0, s)
        /\ IF interface = "wl_output"
           THEN Anomaly(Cost(bad) + Cost(pc = "sync2"))
           ELSE Ignored
        /\ failed' = IF bad THEN failed \cup {nout + 1} ELSE failed

GlobalLegacy(interface, ro) ==
  /\ impl = "legacy"
  /\ alloc_asked_global_legacy(Cur, interface, ro)
  /\ LET bad == alloc_failed_global_legacy(Cur, interface, ro)
     IN /\ \E s \in global_handler_legacy(Cur, nout + 1, interface, ro) :
             /\ Commit(s, pc)
             /\ last' = Last(IF interface = "wl_output" THEN "event" ELSE "global_other", 0, s)
        /\ IF interface = "wl_output"
           THEN Anomaly(Cost(bad) + Cost(pc = "sync2"))
           ELSE Ignored
        /\ failed' = IF bad THEN failed \cup {nout + 1} ELSE failed

\* the compositor announces a global: those it has at the first
\* synchronisation call, or one that appears during the second
GlobalEvent ==
  /\ pc \in {"sync1", "sync2"} /\ Connected
  /\ \E interface \in Interfaces :
       /\ interface = "wl_output" => nout < MaxOutputs
       /\ \/ \E ro, rd, md \in BOOLEAN : GlobalInsights(interface, ro, rd, md)
          \/ \E ro \in BOOLEAN : GlobalLegacy(interface, ro)
       /\ nout' = IF interface = "wl_output" THEN nout + 1 ELSE nout
  /\ dispatched' = (dispatched \/ pc = "sync2")
  /\ UNCHANGED <<impl, syncs, sent, entry>>

GlobalRemoveEvent ==
  /\ pc \in {"sync1", "sync2"} /\ Connected
  /\ \E s \in global_remove(Cur) :
       /\ Commit(s, pc)
       /\ last' = Last("global_remove", 0, s)
  /\ Ignored
  /\ dispatched' = (dispatched \/ pc = "sync2")
  /\ UNCHANGED <<impl, syncs, nout, failed, sent, entry>>

\* the geometry event handled for the output of listener l; extra: it is
\* not the first one for that output
GeometryInsights(l, p, extra) ==
  /\ impl = "insights"
  /\ \E s \in handle_geometry_insights(Cur, l.data, p[1], p[2]) :
       /\ Commit(s, pc)
       /\ last' = Last("event", 0, s)
  /\ Anomaly(Cost(extra))
  /\ UNCHANGED failed

GeometryLegacy(l, p, extra, rd, mi, garbage) ==
  /\ impl = "legacy"
  /\ alloc_asked_geometry_legacy(Cur, rd, mi)
  /\ LET bad == alloc_failed_geometry_legacy(Cur, rd, mi)
     IN /\ \E s \in handle_geometry_legacy(Cur, l.out, p[1], p[2], rd, mi, garbage) :
             /\ Commit(s, pc)
             /\ last' = Last("event", 0, s)
        /\ Anomaly(Cost(bad) + Cost(extra))
        /\ failed' = IF bad THEN failed \cup {l.out} ELSE failed

Geometry(l, p, extra) ==
  \/ GeometryInsights(l, p, extra)
  \/ \E rd, mi \in BOOLEAN, garbage \in Garbage : GeometryLegacy(l, p, extra, rd, mi, garbage)

\* the compositor sends the geometry of l's output: that of the next output
\* in turn, or once more that of an output it has described already
RepeatedGeometryFor(l, p) ==
  /\ Served(l)
  /\ Geometry(l, p, TRUE)
  /\ sent' = sent

GeometryFor(l) ==
  \/ /\ IsNext(l, 0)
     /\ Geometry(l, MonitorPhys(l.out), FALSE)
     /\ sent' = sent + 1
  \/ \E p \in ExtraPhys : RepeatedGeometryFor(l, p)

GeometryEvent ==
  /\ pc = "sync2" /\ Connected
  /\ \E l \in listeners : GeometryFor(l)
  /\ dispatched' = TRUE
  /\ UNCHANGED <<impl, syncs, nout, entry>>

\* the mode event handled for the output of listener l
Mode(l, flags, m) ==
  \E s \in IF impl = "insights"
           THEN handle_mode_insights(Cur, l.data, flags, m[1], m[2], m[3])
           ELSE handle_mode_legacy(Cur, flags, m[1], m[2], m[3]) :
    /\ Commit(s, pc)
    /\ last' = Last(IF IsCurrent(flags) THEN "event" ELSE "mode_other", 0, s)

\* the compositor sends a mode of l's output: the current mode of the next
\* output in turn, a new current mode of an output it has described
\* already, or a mode that is not the current one
CurrentModeFor(l) ==
  \E flags \in Flags :
    /\ IsCurrent(flags)
    /\ \/ /\ IsNext(l, 1)
          /\ Mode(l, flags, MonitorMode(l.out))
          /\ sent' = sent + 1
          /\ Anomaly(0)
       \/ /\ Served(l)
          /\ \E m \in ExtraModes : Mode(l, flags, m)
          /\ sent' = sent
          /\ Anomaly(1)

OtherModeFor(l) ==
  \E flags \in Flags :
    /\ ~IsCurrent(flags)
    /\ \E m \in ExtraModes : Mode(l, flags, m)
    /\ sent' = sent
    /\ Ignored

ModeFor(l) == CurrentModeFor(l) \/ OtherModeFor(l)

ModeEvent ==
  /\ pc = "sync2" /\ Connected
  /\ \E l \in listeners : ModeFor(l)
  /\ dispatched' = TRUE
  /\ UNCHANGED <<impl, syncs, nout, failed, entry>>

\* the first synchronisation call (wl_display_roundtrip) returns: the
\* registry's globals have been announced, or the connection failed
FirstSyncReturns ==
  /\ pc = "sync1"
  /\ \E ok \in BOOLEAN : \E r \in first_sync(impl, Cur, ok) :
       /\ Commit(r.s, IF r.running THEN "sync2" ELSE "idle")
       /\ last' = Last(IF r.running THEN "event" ELSE "init_wayland", r.ret, r.s)
       /\ syncs' = IF r.running
                   THEN <<[syncs[1] EXCEPT !.result = Result(ok)], Call(sync_call(impl, 2))>>
                   ELSE <<[syncs[1] EXCEPT !.result = Result(ok)]>>
       /\ Anomaly(Cost(~ok))
  /\ dispatched' = FALSE
  /\ UNCHANGED <<impl, nout, failed, sent, entry>>

\* the second synchronisation call returns, and init_wayland with it:
\* wl_display_roundtrip once every event the compositor owes has been
\* dispatched, wl_display_dispatch once it has dispatched at least one
\* event, either one at once when the connection fails (and a connection
\* that has failed stays failed)
SecondSyncReturns ==
  /\ pc = "sync2"
  /\ \E ok \in BOOLEAN : \E r \in second_sync(impl, Cur, ok) :
       /\ ok => syncs[1].result = "ok"
       /\ ok => IF sync_call(impl, 2) = "wl_display_dispatch" THEN dispatched ELSE ~Pending
       /\ Commit(r.s, "idle")
       /\ last' = Last("init_wayland", r.ret, r.s)
       /\ syncs' = [syncs EXCEPT ![2].result = Result(ok)]
       /\ Anomaly(Cost(~ok /\ syncs[1].result = "ok"))
  /\ UNCHANGED <<impl, dispatched, nout, failed, sent, entry>>

Cleanup ==
  /\ pc = "idle"
  /\ \E s \in cleanup(impl, Cur) :
       /\ Commit(s, "idle")
       /\ last' = Last(IF last.op \in {"cleanup", "cleanup_again"}
                       THEN "cleanup_again" ELSE "cleanup", 0, s)
  /\ Forget
  /\ plain' = FALSE
  /\ UNCHANGED <<impl, anomalies>>

\* the arrays a test may hand to set_displays: c records of its own making
\* (NULL is handed in with c = 0 only)
InjectRecords == {Record(0, m, p) : m \in ExtraModes, p \in ExtraPhys}
                 \cup {Record(0, MonitorMode(1), MonitorPhys(1))}
Injections ==
  {[arr |-> NullArr, recs |-> <<>>]}
  \cup {[arr |-> [st |-> "live", len |-> Len(q), elems |-> [i \in 1..Len(q) |-> i]],
         recs |-> q]
          : q \in UNION {[1..n -> InjectRecords] : n \in 0..MaxInject}}

\* a test hands the array and records of j to set_displays; one injection
\* straight after another counts as one
SetDisplaysOf(j) ==
  /\ pc = "idle"
  /\ \E s \in set_displays(impl, Cur, j.arr, j.recs, j.arr.len) :
       /\ Commit(s, "idle")
       /\ last' = Last("set_displays", 0, s)
  /\ Anomaly(Cost(last.op # "set_displays"))
  /\ Forget
  /\ UNCHANGED impl

SetDisplays == \E j \in Injections : SetDisplaysOf(j)

SetMemoryError ==
  /\ pc = "idle"
  /\ \E error \in BOOLEAN : \E s \in set_memory_error(Cur, error) :
       /\ Commit(s, "idle")
       /\ last' = Last("set_memory_error", 0, s)
  /\ Anomaly(0)
  /\ UNCHANGED <<impl, syncs, dispatched, nout, failed, sent, entry>>

Next ==
  \/ InitWayland
  \/ GlobalEvent
  \/ GlobalRemoveEvent
  \/ GeometryEvent
  \/ ModeEvent
  \/ FirstSyncReturns
  \/ SecondSyncReturns
  \/ Cleanup
  \/ SetDisplays
  \/ SetMemoryError

Spec == Init /\ [][Next]_vars

\* ------------------------------------------- a compositor that keeps order
\* The compositor announces its globals while the first synchronisation call
\* waits, sends each bound output's geometry and current mode once, sends
\* nothing else, and answers every synchronisation call.
Announced == GlobalEvent /\ pc = "sync1"
DescribedGeometry == GeometryEvent /\ sent' = sent + 1
DescribedMode == ModeEvent /\ sent' = sent + 1
FirstAnswered == FirstSyncReturns /\ syncs'[1].result = "ok"
SecondAnswered == SecondSyncReturns /\ syncs'[2].result = "ok"

\* what happens inside wl_display_roundtrip and wl_display_dispatch
Drain ==
  \/ Announced
  \/ DescribedGeometry
  \/ DescribedMode
  \/ FirstAnswered
  \/ SecondAnswered

LiveNext ==
  \/ InitWayland
  \/ Drain
  \/ Cleanup
  \/ SetDisplays
  \/ SetMemoryError

\* the synchronisation calls block the caller until the compositor has acted:
\* a step of the drain that can be taken is taken
LiveSpec == Init /\ [][LiveNext]_vars /\ WF_vars(Drain)

\* ------------------------------------------ the test log callback at work
\* the library calls the callback get_test_callback() handed it
TestLogCallback ==
  /\ calls < MaxCalls
  /\ calls' = calls + 1
  /\ \E level \in LogLevels : \E msg \in Messages :
       test_cb_state' = test_log_callback_fn(test_cb_state, level, msg)
  /\ UNCHANGED vars

ResetTestCallback ==
  /\ test_cb_state' = reset_test_callback(test_cb_state)
  /\ UNCHANGED <<vars, calls>>

LogNext ==
  \/ TestLogCallback
  \/ ResetTestCallback

logvars == <<vars, test_cb_state, calls>>
LogSpec == Init /\ [][LogNext]_logvars

\* ------------------------------------------------------------ properties
\* init_wayland is running, or has returned r and nothing was called since
Enumerating == pc \in {"sync1", "sync2"}
InitReturned(r) == pc = "idle" /\ last.op = "init_wayland" /\ last.ret = r

\* the places of output k's records among those get_displays() exposes
RecordsOf(k) == {i \in DOMAIN Visible : Visible[i].owner = k}

\* r holds what the compositor sent for output k, first or afterwards
Populated(r, k) ==
  /\ <<r.width, r.height, r.refresh>> \in {MonitorMode(k)} \cup ExtraModes
  /\ <<r.phys_width, r.phys_height>> \in {MonitorPhys(k)} \cup ExtraPhys

\* a handler finds its array full and the realloc that should grow it fails,
\* in a run that has met no undefined behaviour before
GrowthFails ==
  /\ Enumerating /\ Connected /\ fault = "none"
  /\ \/ /\ displays_count >= displays_capacity
        /\ \E ro, rd \in BOOLEAN :
             (~ro \/ ~rd) /\ GlobalInsights("wl_output", ro, rd, TRUE)
     \/ /\ outputs_count >= outputs_capacity
        /\ GlobalLegacy("wl_output", FALSE)
     \/ /\ displays_count >= displays_capacity
        /\ \E l \in listeners, extra \in BOOLEAN, garbage \in Garbage :
             \E p \in {MonitorPhys(l.out)} \cup ExtraPhys :
               GeometryLegacy(l, p, extra, FALSE, TRUE, garbage)

\* C1: when the realloc that grows a full array fails in a handler, then
\* after that handler get_output_count() is what it was, had_memory_error()
\* is true, and get_displays() is still a live array whose first
\* get_output_count() entries point to the unchanged records made before.
C1_GrowthFailureKeepsRecords ==
  [][GrowthFails =>
       /\ pc' # "crashed"
       /\ displays_count' = displays_count
       /\ memory_error'
       /\ displays'.st = "live"
       /\ \A i \in 1..displays_count :
            /\ i <= Len(displays.elems) /\ i <= Len(displays'.elems)
            /\ displays'.elems[i] = displays.elems[i]
            /\ displays.elems[i] # 0 => recs'[displays.elems[i]] = recs[displays.elems[i]]]_vars

\* C2: in a call of init_wayland that started from reset statics, an output
\* in whose handling an allocation failed leaves the error flag set, no
\* record, no stored handle and no listener; every output announced after
\* it whose allocations succeed has its handle stored and its listener
\* attached and, once its geometry and current mode have been delivered, a
\* record of its own that holds them; and none of this has run into
\* undefined behaviour.
C2_FailedOutputIsSkipped ==
  ((Enumerating \/ InitReturned(0)) /\ entry.reset /\ failed # {}) =>
    /\ fault = "none"
    /\ had_memory_error
    /\ \A k \in failed :
         /\ RecordsOf(k) = {}
         /\ k \notin Seen(outputs, outputs_count)
         /\ \A l \in listeners : l.out # k
    /\ \A k \in (1..nout) \ failed :
         (\E f \in failed : f < k) =>
           /\ k \in Seen(outputs, outputs_count)
           /\ \E l \in listeners : l.out = k
           /\ \A l \in listeners :
                (l.out = k /\ Served(l)) =>
                  \E i \in RecordsOf(k) : Populated(Visible[i], k)

\* C3: when init_wayland has returned -1, get_output_count() is 0 and no
\* connection, registry or output handle is live; and a call in which a
\* synchronisation call failed has not returned 0.
C3_FailureLeavesNothing ==
  (pc = "idle" /\ last.op = "init_wayland") =>
    /\ last.ret = -1 =>
         /\ get_output_count = 0
         /\ display = 0 /\ registry = 0
         /\ live_outputs = {}
    /\ (\E i \in 1..Len(syncs) : syncs[i].result = "failed") => last.ret = -1

\* init_wayland is called and wl_display_connect fails
ConnectFails ==
  /\ pc = "idle"
  /\ \E r \in init_wayland(impl, Cur, TRUE, TRUE, FALSE, 1) :
       /\ Commit(r.s, "idle")
       /\ last' = Last("init_wayland", r.ret, r.s)

\* C4 as stated: when the connection cannot be made and init_wayland
\* returns, it returns -1, get_output_count() is 0 and had_memory_error() is what it was before
\* the call.
C4_ConnectFailureKeepsFlag ==
  [][(ConnectFails /\ pc' = "idle") =>
       /\ last'.ret = -1
       /\ displays_count' = 0
       /\ memory_error' = memory_error]_vars

\* C4 amended: when the connection cannot be made and init_wayland returns,
\* it returns -1, get_output_count() is 0 and had_memory_error() is false
\* whatever it was before, because the teardown on that path resets it.
C4_ConnectFailureClearsFlag ==
  [][(ConnectFails /\ pc' = "idle") =>
       /\ last'.ret = -1
       /\ displays_count' = 0
       /\ ~memory_error'
       /\ display' = 0 /\ registry' = 0]_vars

\* init_wayland was called with the error flag set, the connection failed
\* and the call returned with the flag cleared
C4_FlagWasSet ==
  /\ InitReturned(-1) /\ syncs = <<>>
  /\ entry.error /\ ~had_memory_error

\* C5: a call of init_wayland that starts from reset statics, in which every
\* allocation and library call succeeds and the compositor announces N
\* outputs and sends each exactly one geometry and one current mode and
\* nothing else (a plain enumeration without anomaly), returns 0 with get_output_count() = N and record k
\* holding, for the k-th output announced, exactly the width, height and
\* refresh of its mode and the physical size of its geometry.
C5_PlainEnumeration ==
  (pc = "idle" /\ last.op = "init_wayland" /\ plain /\ anomalies = 0) =>
    /\ last.ret = 0
    /\ fault = "none"
    /\ get_output_count = nout
    /\ get_displays.st = "live"
    /\ DOMAIN Visible = 1..nout
    /\ \A k \in 1..nout : Visible[k] = Record(k, MonitorMode(k), MonitorPhys(k))

\* C6: whenever init_wayland returns 0 (here: from a plain enumeration in
\* which the compositor sent nothing but what it owed) it
\* has made exactly two synchronisation calls, both of them protocol
\* round-trips, and if both succeeded every event owed for the outputs
\* bound during the first has been delivered.
C6_TwoRoundTrips ==
  (InitReturned(0) /\ plain /\ anomalies = 0) =>
    /\ Len(syncs) = 2
    /\ \A i \in 1..Len(syncs) : syncs[i].call = "wl_display_roundtrip"
    /\ (\A i \in 1..Len(syncs) : syncs[i].result = "ok") => ~Pending

\* the caller calls cleanup()
CleanupRuns ==
  /\ pc = "idle"
  /\ \E s \in cleanup(impl, Cur) : Commit(s, "idle")
  /\ last'.op \in {"cleanup", "cleanup_again"}

\* C7: when cleanup() is called after a call of init_wayland that started
\* from reset statics and left both arrays allocated, it returns and then
\* no bound output handle is live, registry and connection are NULL,
\* get_output_count() is 0, the capacity is back at 4 and
\* had_memory_error() is false.
C7_CleanupReleasesAll ==
  [][(/\ CleanupRuns /\ last.op = "init_wayland" /\ entry.reset
      /\ outputs.st = "live" /\ displays.st = "live") =>
       /\ pc' = "idle"
       /\ live_outputs' = {}
       /\ registry' = 0 /\ display' = 0
       /\ displays_count' = 0 /\ outputs_count' = 0
       /\ displays_capacity' = INITIAL_CAPACITY
       /\ outputs_capacity' = INITIAL_CAPACITY
       /\ ~memory_error']_vars

\* C8: a call of cleanup() that follows a call of cleanup() with nothing in
\* between releases nothing (no wl_output_destroy, wl_registry_destroy,
\* wl_display_disconnect or free of a non-NULL pointer) and leaves the
\* statics, the heap and the proxies exactly as the first call left them.
C8_CleanupIdempotent ==
  [][(CleanupRuns /\ last.op \in {"cleanup", "cleanup_again"}) =>
       /\ pc' = "idle"
       /\ last'.released = 0
       /\ statics' = statics
       /\ recs' = recs /\ listeners' = listeners /\ live_outputs' = live_outputs
       /\ fault' = fault]_vars

\* cleanup() has been called twice in succession and has returned
C8_CleanedTwice == pc = "idle" /\ last.op = "cleanup_again"

\* C9: while init_wayland runs, between any two callbacks, and after it has
\* returned 0, the number of stored output handles equals the number of
\* display records, and the handle at each index is that of the output
\* whose record is at that index.
C9_HandlesAlignWithRecords ==
  ((Enumerating \/ InitReturned(0)) /\ entry.reset /\ fault = "none") =>
    /\ outputs_count = displays_count
    /\ \A i \in 1..displays_count :
         /\ i <= Len(outputs.elems) /\ i <= Len(displays.elems)
         /\ outputs.elems[i] # 0 /\ displays.elems[i] # 0
         /\ recs[displays.elems[i]].owner = outputs.elems[i]

\* an event for the output of listener l is dispatched
EventFor(l) == pc = "sync2" /\ Connected /\ (GeometryFor(l) \/ ModeFor(l))

\* C10: a geometry or mode event for output k changes no record but the one
\* made for output k, whatever events for other outputs came before it and
\* whatever the allocations answered.
C10_EventTouchesOwnRecord ==
  [][\A l \in listeners :
       (EventFor(l) /\ entry.reset /\ fault = "none") =>
         /\ Len(recs') >= Len(recs)
         /\ \A rid \in 1..Len(recs) :
              recs'[rid] # recs[rid] => recs[rid].owner = l.out]_vars

\* the record a current-mode event for the output of listener l is written
\* to is one of the records get_displays() exposes: insights writes through
\* the listener's data pointer, legacy through displays[displays_count - 1]
ModeTargetExists(l) ==
  IF impl = "insights"
  THEN \E i \in DOMAIN Visible : displays.elems[i] = l.data
  ELSE /\ displays_count - 1 >= 0
       /\ Access(displays, displays_count - 1) = "ok"
       /\ displays.elems[displays_count] # 0

\* C11: whenever the mode handler processes an event that carries the
\* current flag, the record it writes to exists, its index being below the
\* record count; also when the creation of that output's record failed on
\* allocation and when no record has been created yet.
C11_ModeTargetExists ==
  [][\A l \in listeners :
       (/\ pc = "sync2" /\ Connected /\ CurrentModeFor(l)
        /\ entry.reset /\ fault = "none") => ModeTargetExists(l)]_vars

\* C12: a mode event whose flags lack the current-mode bit leaves width,
\* height and refresh of every record unchanged, and with them the record
\* count, the physical sizes, memory_error and the rest of the statics.
C12_OtherModeChangesNothing ==
  [][\A l \in listeners :
       (pc = "sync2" /\ Connected /\ OtherModeFor(l)) =>
         /\ recs' = recs
         /\ statics' = statics
         /\ listeners' = listeners /\ live_outputs' = live_outputs
         /\ pc' = pc /\ fault' = fault]_vars

\* a mode without the current-mode bit has been handled while a record held
\* the current mode of its output
C12_OtherModeSeen ==
  /\ pc = "sync2" /\ last.op = "mode_other"
  /\ \E i \in DOMAIN Visible :
       /\ Visible[i].owner # 0
       /\ <<Visible[i].width, Visible[i].height, Visible[i].refresh>>
            = MonitorMode(Visible[i].owner)

\* C13: a second geometry event for an output that has its record leaves
\* the number of records unchanged and that output with a single record,
\* which holds the physical width and height of the later event and the
\* width, height and refresh it held before.
C13_LaterGeometryWins ==
  [][\A l \in listeners : \A p \in ExtraPhys :
       (/\ pc = "sync2" /\ Connected /\ RepeatedGeometryFor(l, p)
        /\ entry.reset /\ fault = "none" /\ Cardinality(RecordsOf(l.out)) = 1) =>
         /\ displays_count' = displays_count
         /\ RecordsOf(l.out)' = RecordsOf(l.out)
         /\ \A i \in RecordsOf(l.out) :
              Visible'[i] = [Visible[i] EXCEPT !.phys_width = p[1],
                                                !.phys_height = p[2]]]_vars

\* the compositor has delivered the first geometry / the current mode of the
\* output l listens to
GeometryDelivered(l) == sent >= 2 * Rank(l) - 1
ModeDelivered(l) == sent >= 2 * Rank(l)

\* C14: a record get_displays() exposes reports width, height and refresh 0
\* until its output's mode has arrived, and physical width and height 0
\* until its geometry has arrived.
C14_NewRecordIsZero ==
  (Enumerating /\ entry.reset /\ anomalies = 0 /\ fault = "none") =>
    \A i \in DOMAIN Visible : \A l \in listeners :
      Visible[i].owner = l.out =>
        /\ ~ModeDelivered(l) =>
             <<Visible[i].width, Visible[i].height, Visible[i].refresh>>
               = <<0, 0, 0>>
        /\ ~GeometryDelivered(l) =>
             <<Visible[i].phys_width, Visible[i].phys_height>> = <<0, 0>>

\* the step ran cleanup() or set_memory_error(): called by the caller, by
\* set_displays, or by init_wayland on its way to returning -1
FlagMayChange ==
  \/ last'.op \in {"cleanup", "cleanup_again", "set_displays", "set_memory_error"}
  \/ last'.op = "init_wayland" /\ last'.ret = -1

\* C15: once memory_error is set, no step other than cleanup() or the test
\* seam clears it; and when init_wayland returns 0 after an allocation
\* failed while its events were handled, had_memory_error() is true.
C15_MemoryErrorIsSticky ==
  /\ [][(memory_error /\ ~FlagMayChange) => memory_error']_vars
  /\ []((InitReturned(0) /\ failed # {}) => had_memory_error)

C15_FailureReported ==
  InitReturned(0) /\ failed # {} /\ had_memory_error /\ DOMAIN Visible # {}

\* an event handler runs while init_wayland waits in a synchronisation call
HandlerRuns == Enumerating /\ pc' = pc

\* the first n entries of array a are entries of a_ at the same places
KeepsEntries(a, n, a_) ==
  \A i \in 1..n :
    Access(a, i - 1) = "ok" => Access(a_, i - 1) = "ok" /\ a_.elems[i] = a.elems[i]

\* C16: while the events are handled the session only grows: no handler
\* lowers a count, drops a record or a handle from its array or moves one to
\* another index, and the global-remove handler changes nothing at all.
C16_AppendOnly ==
  [][(HandlerRuns /\ entry.reset /\ fault = "none") =>
       /\ displays_count' >= displays_count
       /\ outputs_count' >= outputs_count
       /\ KeepsEntries(displays, displays_count, displays')
       /\ KeepsEntries(outputs, outputs_count, outputs')
       /\ last'.op = "global_remove" =>
            /\ statics' = statics /\ recs' = recs /\ listeners' = listeners
            /\ live_outputs' = live_outputs]_vars

\* the capacity reached from c by doubling until n entries fit
RECURSIVE Doubled(_, _)
Doubled(c, n) == IF c >= n THEN c ELSE Doubled(2 * c, n)

\* init_wayland, called over reset statics, is handling events or has
\* returned 0, and has met no undefined behaviour
InSession == (Enumerating \/ InitReturned(0)) /\ entry.reset /\ fault = "none"

\* capacity changes only in a handler that found count == capacity, to twice
\* its value
GrowsByDoubling(count, capacity, capacity_) ==
  capacity_ # capacity =>
    HandlerRuns /\ count = capacity /\ capacity_ = 2 * capacity

\* C17: in a session started from reset statics each capacity is 4 until the
\* fifth entry is appended and is always the smallest of 4, 8, 16, ... that
\* holds the entries appended so far; it changes only while an event that
\* arrived with count == capacity is handled, and then it doubles.
C17_CapacityDoubles ==
  /\ [](InSession =>
          /\ displays_capacity = Doubled(INITIAL_CAPACITY, displays_count)
          /\ outputs_capacity = Doubled(INITIAL_CAPACITY, outputs_count))
  /\ [][(InSession /\ InSession') =>
          /\ GrowsByDoubling(displays_count, displays_capacity, displays_capacity')
          /\ GrowsByDoubling(outputs_count, outputs_capacity, outputs_capacity')]_vars

\* C18: when set_displays(records, c) returns, whatever the statics held
\* before, get_output_count() is c and get_displays() is the array handed
\* in, whose c entries are the injected records in their order; no record
\* of an earlier session or injection is left.
C18_InjectionReplacesAll ==
  [][\A j \in Injections :
       (SetDisplaysOf(j) /\ pc' = "idle") =>
         /\ get_output_count' = j.arr.len
         /\ get_displays' = j.arr
         /\ recs' = j.recs
         /\ Visible' = [i \in 1..j.arr.len |-> j.recs[i]]]_vars

\* an injection of MaxInject records has replaced one of as many other
\* records, or the records of an enumeration
C18_Replaced ==
  /\ pc = "idle" /\ last.op = "set_displays" /\ last.released > 0
  /\ get_output_count = MaxInject
  /\ DOMAIN Visible = 1..MaxInject

\* array a is allocated and has at least as many slots as either counter says
Holds(a, count, capacity) ==
  a.st = "live" /\ count <= a.len /\ capacity <= a.len

\* C19: after every handler of a session in which no allocation has failed,
\* whatever calls preceded the session, the record array and the handle
\* array have at least as many slots as their count and their capacity say,
\* and the handler has written inside them.
C19_CountWithinArrays ==
  [][(HandlerRuns /\ fault = "none" /\ failed' = {}) =>
       /\ fault' = "none"
       /\ Holds(displays', displays_count', displays_capacity')
       /\ Holds(outputs', outputs_count', outputs_capacity')]_vars

\* C20: while init_wayland handles events and after it has returned 0,
\* whatever calls came before it and provided no allocation has failed,
\* every index below get_output_count() of get_displays() is a written slot
\* of a live array that points to the record of an output announced in this
\* call; before the first announcement the count is 0.
C20_NothingCarriedOver ==
  ((Enumerating \/ InitReturned(0)) /\ failed = {} /\ fault = "none") =>
    /\ nout = 0 => get_output_count = 0
    /\ \A i \in 1..get_output_count :
         /\ Access(get_displays, i - 1) = "ok"
         /\ get_displays.elems[i] \in 1..Len(recs)
         /\ recs[get_displays.elems[i]].owner \in 1..nout

\* C21: with a compositor that answers every synchronisation call and sends
\* nothing it was not asked for, a call of init_wayland that is waiting in a
\* synchronisation call eventually returns, however many outputs were
\* announced (the process may instead have died of undefined behaviour it
\* met on the way).
C21_InitWaylandReturns == Enumerating ~> (pc \in {"idle", "crashed"})

\* the buffer holds a string of test_cb_state.size characters, its NUL
\* included inside the array
Terminated(t) ==
  /\ t.size < TEST_CB_MAX_SIZE
  /\ Len(t.buf) <= TEST_CB_MAX_SIZE
  /\ At(t.buf, t.size) = 0
  /\ \A i \in 0..(t.size - 1) : At(t.buf, i) # 0

\* C22: the stored length is always below TEST_CB_MAX_SIZE and the buffer is
\* NUL-terminated at that length; every call of test_log_callback_fn adds
\* one to the count, and once buf_exceeded is set it leaves the buffer, its
\* length and the flag as they are; reset_test_callback sets count and
\* length to 0 and the flag to false.
C22_LogBufferBounded ==
  /\ [](Terminated(test_cb_state))
  /\ [][TestLogCallback =>
          /\ get_test_cb_count' = get_test_cb_count + 1
          /\ get_test_cb_buf_exceeded =>
               /\ get_test_cb_buffer' = get_test_cb_buffer
               /\ test_cb_state'.size = test_cb_state.size
               /\ get_test_cb_buf_exceeded']_logvars
  /\ [][ResetTestCallback =>
          /\ get_test_cb_count' = 0
          /\ test_cb_state'.size = 0
          /\ ~get_test_cb_buf_exceeded']_logvars

\* a line filled the buffer to its last byte, a later one was refused and
\* one more was counted after that
C22_DroppedAfterOverflow ==
  /\ get_test_cb_buf_exceeded
  /\ test_cb_state.size = TEST_CB_MAX_SIZE - 1
  /\ get_test_cb_count = MaxCalls

====
